---- MODULE Spec2Model ----
(***************************************************************************)
(* Quiet-block scheduler: interval-conflict detection on the create/update *)
(* path and the reminder scheduler that polls the block store.             *)
(* Instants are whole minutes since an arbitrary epoch.                    *)
(***************************************************************************)
EXTENDS Integers, Sequences, FiniteSets, TLC

VARIABLES now, variant, blocks, inv, deliveries, lastResponse, call, writes,
          pending, emailLog, cached, connects, callers

vars == <<now, variant, blocks, inv, deliveries, lastResponse, call, writes,
          pending, emailLog, cached, connects, callers>>

\* the variables of the quiet-block store and its scheduler
schedulerVars == <<variant, blocks, inv, deliveries, lastResponse, call, writes,
                   pending>>

\* the variables of the email log
logVars == <<emailLog>>

\* the variables of the database connection cache
dbVars == <<cached, connects, callers>>

(***************************************************************************)
(* Bounds of the model                                                     *)
(***************************************************************************)
MaxTime == 21
MaxBlocks == 1
MaxApiBlocks == 2
MaxInv == 2
MaxInstant == 4
MaxWrites == 3
MaxPending == 2
MaxLoopBlocks == 2
MaxRetryCount == 5
MaxCallers == 3
MaxConnects == 3

(***************************************************************************)
(* Program constants (minutes)                                             *)
(***************************************************************************)
LookAhead90 == 5
Tolerance90 == 2
LookAheadBackup == 60
ToleranceBackup == 10
Window5 == 5
DefaultMinutesBefore == 15
MinDuration == 15
MaxDuration == 480
EndBuffer == 1
DayMinutes == 1440

NoDate == -1
Absent == -1

Variants == {"v90", "v5", "backup"}
Statuses == {"scheduled", "active", "completed", "cancelled"}
Users == {"u1"}
Outcomes == {"success", "failure", "throws"}

(***************************************************************************)
(* Interval-math primitives                                                *)
(***************************************************************************)
\* closed intervals: touching endpoints count as an overlap
doTimeSlotsOverlap_Closed(slot1, slot2) ==
    slot1.startTime <= slot2.endTime /\ slot2.startTime <= slot1.endTime

\* the second comparison made against the wrong endpoint
doTimeSlotsOverlap_OneSided(slot1, slot2) ==
    slot1.startTime < slot2.endTime /\ slot2.startTime < slot1.startTime

doTimeSlotsOverlap(slot1, slot2) ==
    slot1.startTime < slot2.endTime /\ slot2.startTime < slot1.endTime

TimeSlot(s, e) == [startTime |-> s, endTime |-> e]

\* the first clause with $gte in place of $gt
checkForConflicts_Inclusive(newBlock, existing) ==
    \/ existing.startTime <= newBlock.startTime /\ existing.endTime >= newBlock.startTime
    \/ existing.startTime < newBlock.endTime /\ existing.endTime >= newBlock.endTime
    \/ existing.startTime >= newBlock.startTime /\ existing.endTime <= newBlock.endTime

\* the $or of QuietBlockService.checkForConflicts on an existing document:
\* new block starts during it, ends during it, or contains it
checkForConflicts(newBlock, existing) ==
    \/ existing.startTime <= newBlock.startTime /\ existing.endTime > newBlock.startTime
    \/ existing.startTime < newBlock.endTime /\ existing.endTime >= newBlock.endTime
    \/ existing.startTime >= newBlock.startTime /\ existing.endTime <= newBlock.endTime

\* the duration rule tried before the past-end rule
validateTimeSlot_ShortFirst(startTime, endTime, t) ==
    IF startTime >= endTime THEN "InvalidRange"
    ELSE IF endTime - startTime < MinDuration THEN "TooShort"
    ELSE IF endTime <= t THEN "PastEnd"
    ELSE IF endTime - startTime > MaxDuration THEN "TooLong"
    ELSE "ok"

\* validateTimeSlot evaluated at instant t: the first failing rule, or "ok"
validateTimeSlot(startTime, endTime, t) ==
    IF startTime >= endTime THEN "InvalidRange"
    ELSE IF endTime <= t THEN "PastEnd"
    ELSE IF endTime - startTime < MinDuration THEN "TooShort"
    ELSE IF endTime - startTime > MaxDuration THEN "TooLong"
    ELSE "ok"

(***************************************************************************)
(* Generic sequence helpers                                                *)
(***************************************************************************)
\* the ids of the stored documents, in ascending order
AllIds == [k \in 1..Len(blocks) |-> k]

RECURSIVE InsertByStart(_, _)
\* stable insertion of id b into a list of ids ordered by startTime
InsertByStart(b, ids) ==
    IF ids = <<>> THEN <<b>>
    ELSE IF blocks[b].startTime < blocks[Head(ids)].startTime
         THEN <<b>> \o ids
         ELSE <<Head(ids)>> \o InsertByStart(b, Tail(ids))

RECURSIVE SortByStart(_)
SortByStart(ids) ==
    IF ids = <<>> THEN <<>>
    ELSE InsertByStart(ids[Len(ids)], SortByStart(SubSeq(ids, 1, Len(ids) - 1)))

Range(s) == {s[k] : k \in DOMAIN s}

(***************************************************************************)
(* Block store queries                                                     *)
(***************************************************************************)
BlockIds == DOMAIN blocks

\* QuietBlockService.getUserQuietBlocks with a startDate/endDate filter
getUserQuietBlocks(user, startDate, endDate) ==
    SortByStart(SelectSeq(AllIds,
        LAMBDA b : /\ blocks[b].owner = user
                   /\ blocks[b].isDeleted = FALSE
                   /\ blocks[b].startTime >= startDate
                   /\ blocks[b].startTime <= endDate))

RECURSIVE OverlapScan(_, _, _)
OverlapScan(newBlock, existing, excludeBlockId) ==
    IF existing = <<>> THEN <<>>
    ELSE LET b == Head(existing)
             rest == OverlapScan(newBlock, Tail(existing), excludeBlockId)
         IN  IF excludeBlockId # Absent /\ b = excludeBlockId THEN rest
             ELSE IF blocks[b].isDeleted THEN rest
             ELSE IF doTimeSlotsOverlap(newBlock,
                        TimeSlot(blocks[b].startTime, blocks[b].endTime))
                  THEN <<b>> \o rest
             ELSE rest

\* the id of the edited block not passed on to the scan
checkQuietBlockOverlap_NoExclude(newBlock, existingBlocks, excludeBlockId) ==
    OverlapScan(newBlock, existingBlocks, Absent)

\* the whole collection scanned, soft-deleted documents included
checkQuietBlockOverlap_WholeStore(newBlock, existingBlocks, excludeBlockId) ==
    SelectSeq(AllIds,
        LAMBDA b : /\ b # excludeBlockId
                   /\ doTimeSlotsOverlap(newBlock,
                          TimeSlot(blocks[b].startTime, blocks[b].endTime)))

\* the scan abandoned at the first overlapping block
checkQuietBlockOverlap_FirstOnly(newBlock, existingBlocks, excludeBlockId) ==
    LET found == OverlapScan(newBlock, existingBlocks, excludeBlockId)
    IN  IF found = <<>> THEN <<>> ELSE <<Head(found)>>

\* conflictingBlocks of checkQuietBlockOverlap, as a list of block ids
checkQuietBlockOverlap(newBlock, existingBlocks, excludeBlockId) ==
    OverlapScan(newBlock, existingBlocks, excludeBlockId)

(***************************************************************************)
(* Reminder scheduler: the three variants of the send-reminders handler    *)
(***************************************************************************)
reminderMinutes(doc) ==
    IF doc.minutesBefore # 0 THEN doc.minutesBefore ELSE DefaultMinutesBefore

reminderTime(doc) == doc.startTime - reminderMinutes(doc)

\* the candidate queries without their lower bound on startTime
CandidateQuery_NoStartBound(v, doc, t) ==
    CASE v = "v90" ->
            /\ doc.status = "scheduled"
            /\ doc.isDeleted = FALSE
            /\ doc.reminderSent = FALSE
            /\ doc.enabled
            /\ doc.emailEnabled
            /\ doc.startTime <= t + LookAhead90
      [] v = "v5" ->
            /\ doc.status = "scheduled"
            /\ doc.reminderSent = FALSE
            /\ doc.enabled
            /\ doc.emailEnabled
      [] v = "backup" ->
            /\ doc.status = "scheduled"
            /\ doc.reminderSent = FALSE
            /\ doc.startTime <= t + LookAheadBackup

\* the candidate query of each variant, evaluated on a stored document
CandidateQuery(v, doc, t) ==
    CASE v = "v90" ->
            /\ doc.status = "scheduled"
            /\ doc.isDeleted = FALSE
            /\ doc.reminderSent = FALSE
            /\ doc.enabled
            /\ doc.emailEnabled
            /\ doc.startTime >= t
            /\ doc.startTime <= t + LookAhead90
      [] v = "v5" ->
            /\ doc.status = "scheduled"
            /\ doc.reminderSent = FALSE
            /\ doc.enabled
            /\ doc.emailEnabled
            /\ doc.startTime > t
      [] v = "backup" ->
            /\ doc.status = "scheduled"
            /\ doc.reminderSent = FALSE
            /\ doc.startTime >= t
            /\ doc.startTime <= t + LookAheadBackup

shouldSendNow(v, doc, t) ==
    CASE v = "v90" ->
            t >= reminderTime(doc) /\ t <= reminderTime(doc) + Tolerance90
      [] v = "v5" ->
            reminderTime(doc) >= t /\ reminderTime(doc) <= t + Window5
      [] v = "backup" ->
            t - reminderTime(doc) >= 0 /\ t - reminderTime(doc) <= ToleranceBackup

\* Math.round((startTime - now) / 60000) on whole minutes
minutesUntilStart(doc, t) == doc.startTime - t

\* the user document a block's userId populates to
\* the users whose preferences carry a notificationEmail
Notified == {"u3"}

UserEmail(u) == IF u \in Users \cup Notified THEN "primary" ELSE "none"

\* the notification address ignored
emailAddress_PrimaryOnly(u) == UserEmail(u)

\* user.preferences?.notificationEmail || user.email
emailAddress(u) == IF u \in Notified THEN "notification" ELSE UserEmail(u)

UserResolved(doc) == UserEmail(doc.owner) # "none"

upcomingQuietBlocks(v, t) ==
    LET ids == SelectSeq(AllIds, LAMBDA b : CandidateQuery(v, blocks[b], t))
    IN  [k \in 1..Len(ids) |-> [id |-> ids[k], doc |-> blocks[ids[k]]]]

RECURSIVE FilterDue(_, _, _)
FilterDue(v, fetched, t) ==
    IF fetched = <<>> THEN <<>>
    ELSE IF shouldSendNow(v, Head(fetched).doc, t)
         THEN <<Head(fetched)>> \o FilterDue(v, Tail(fetched), t)
         ELSE FilterDue(v, Tail(fetched), t)

\* the list the per-block loop iterates over
ProcessingQueue(v, fetched, t) ==
    IF v = "v5" THEN FilterDue(v, fetched, t) ELSE fetched

\* the checks of one loop iteration that precede the send
SendsFor(v, entry, t) ==
    CASE v = "v90" ->
            UserResolved(entry.doc) /\ shouldSendNow(v, entry.doc, t)
      [] v = "v5" ->
            UserResolved(entry.doc)
      [] v = "backup" ->
            /\ UserResolved(entry.doc)
            /\ entry.doc.enabled /\ entry.doc.emailEnabled
            /\ shouldSendNow(v, entry.doc, t)

\* an iteration that ends in errorCount++ without sending
CountsErrorWithoutSend(v, entry) == ~UserResolved(entry.doc)

\* process.env.CRON_SECRET and the header the cron jobs send
CronSecret == "s3cret"
Bearer(secret) == "Bearer " \o secret

\* the comparison made without regard to case
Authorized_IgnoreCase(authHeader) ==
    authHeader \in {Bearer(CronSecret), "bearer s3cret", "BEARER S3CRET"}

\* authHeader === `Bearer ${cronSecret}`
Authorized(authHeader) == authHeader = Bearer(CronSecret)

IdleInv ==
    [pc |-> "idle", now |-> 0, checked |-> 0, queue |-> <<>>, idx |-> 1,
     emailResult |-> "none", successCount |-> 0, errorCount |-> 0,
     sentIds |-> {}, storage |-> "up", auth |-> Bearer(CronSecret)]

\* the keys of a create body that CreateQuietBlockSchema does not declare
NoExtra ==
    [present |-> FALSE, status |-> "scheduled", reminderSent |-> FALSE,
     isDeleted |-> FALSE]

Extra(st, sent, del) ==
    [present |-> TRUE, status |-> st, reminderSent |-> sent, isDeleted |-> del]

NoRequest ==
    [user |-> "none", id |-> 0, slot |-> TimeSlot(0, 0), changesRange |-> FALSE,
     sameRange |-> FALSE, extra |-> NoExtra, op |-> "none"]
NoResponse == [kind |-> "none", conflicts |-> <<>>, req |-> NoRequest]
NoCall ==
    [op |-> "none", a |-> TimeSlot(0, 0), b |-> TimeSlot(0, 0),
     result |-> FALSE, swapped |-> FALSE, at |-> 0, verdict |-> "none",
     given |-> <<>>, list |-> <<>>, selected |-> FALSE]

\* a request handler that is not between its overlap check and its save
NoPending == [pc |-> "idle", user |-> "none", slot |-> TimeSlot(0, 0)]

\* an EmailLog document as the schema's defaults create it
\* failedInARow counts the markAsFailed calls since the last other mark
NewEmailLog == [status |-> "pending", retryCount |-> 0, nextRetryAt |-> NoDate,
                failedInARow |-> 0]

\* global.mongoose before the first connect: { conn: null, promise: null }
NoConnect == 0
NoConnection == [conn |-> NoConnect, promise |-> NoConnect]

\* code that may call connectToDatabase, and its state outside a call
Callers == 1..MaxCallers
IdleCaller == [pc |-> "idle", promise |-> NoConnect, result |-> "none",
               conn |-> NoConnect]

Init ==
    /\ now = 0
    /\ variant \in Variants
    /\ blocks = <<>>
    /\ inv = [i \in 1..MaxInv |-> IdleInv]
    /\ deliveries = <<>>
    /\ lastResponse = NoResponse
    /\ call = NoCall
    /\ writes = 0
    /\ pending = [r \in 1..MaxPending |-> NoPending]
    /\ emailLog = NewEmailLog
    /\ cached = NoConnection
    /\ connects = <<>>
    /\ callers = [c \in Callers |-> IdleCaller]

(***************************************************************************)
(* Clock                                                                   *)
(***************************************************************************)
Tick ==
    /\ now < MaxTime
    /\ now' = now + 1
    /\ UNCHANGED <<variant, blocks, inv, deliveries, lastResponse, call, writes, pending,
                 logVars, dbVars>>

(***************************************************************************)
(* Scheduler invocation, one action per await point                        *)
(***************************************************************************)
\* the handler's locals once `now` is read as t and the candidate query ran
StartedAt(t) ==
    LET fetched == upcomingQuietBlocks(variant, t)
    IN  [IdleInv EXCEPT !.pc = "loop",
                        !.now = t,
                        !.checked = Len(fetched),
                        !.queue = ProcessingQueue(variant, fetched, t)]

\* the connection error swallowed and the handler carrying on
Aborted_CarriesOn(t) == [StartedAt(t) EXCEPT !.storage = "down"]

\* connectToDatabase() or the candidate query throws: the handler is in its
\* outer catch with nothing fetched
Aborted(t) == [IdleInv EXCEPT !.pc = "failed", !.now = t, !.storage = "down"]

\* the outer catch returns the 500 response
ReturnError(i) ==
    /\ inv[i].pc = "failed"
    /\ inv' = [inv EXCEPT ![i] = IdleInv]
    /\ UNCHANGED <<now, variant, blocks, deliveries, lastResponse, call, writes, pending,
                 logVars, dbVars>>

\* the handler's locals after the check of the Authorization header: the
\* 401 response is pending, or the clock is read and the candidate query ran
Admitted(authHeader, t) ==
    IF Authorized(authHeader)
    THEN [StartedAt(t) EXCEPT !.auth = authHeader]
    ELSE [IdleInv EXCEPT !.pc = "unauthorized", !.auth = authHeader]

\* return NextResponse.json({ error: 'Unauthorized' }, { status: 401 })
ReturnUnauthorized(i) ==
    /\ inv[i].pc = "unauthorized"
    /\ inv' = [inv EXCEPT ![i] = IdleInv]
    /\ UNCHANGED <<now, variant, blocks, deliveries, lastResponse, call, writes, pending,
                 logVars, dbVars>>

\* POST: read the clock and run the candidate query
StartInvocation(i) ==
    /\ inv[i].pc = "idle"
    /\ inv' = [inv EXCEPT ![i] = StartedAt(now)]
    /\ UNCHANGED <<now, variant, blocks, deliveries, lastResponse, call, writes, pending,
                 logVars, dbVars>>

\* the notifier's record for block b after one more send with this outcome
Delivered(b, outcome) ==
    IF outcome = "success"
    THEN [deliveries EXCEPT ![b].ok = @ + 1,
                            ![b].to = emailAddress(blocks[b].owner)]
    ELSE [deliveries EXCEPT ![b].failed = TRUE,
                            ![b].to = emailAddress(blocks[b].owner)]

\* the success branch taken whatever the notifier returned
ShouldMark_Always(emailResult) == TRUE

\* if (emailResult.success)
ShouldMark(emailResult) == emailResult = "success"

\* one loop iteration up to and including the await on the notifier
ProcessBlock(i, outcome) ==
    /\ inv[i].pc = "loop"
    /\ inv[i].idx <= Len(inv[i].queue)
    /\ LET entry == inv[i].queue[inv[i].idx]
       IN  IF SendsFor(variant, entry, inv[i].now)
           THEN /\ inv' = [inv EXCEPT ![i].pc = "sent",
                                      ![i].emailResult = outcome,
                                      ![i].sentIds =
                                          IF outcome = "success"
                                          THEN @ \cup {entry.id} ELSE @]
                /\ deliveries' = Delivered(entry.id, outcome)
           ELSE /\ outcome = "success"
                /\ inv' = [inv EXCEPT ![i].idx = @ + 1,
                                      ![i].errorCount =
                                          IF CountsErrorWithoutSend(variant, entry)
                                          THEN @ + 1 ELSE @]
                /\ UNCHANGED deliveries
    /\ UNCHANGED <<now, variant, blocks, lastResponse, call, writes, pending,
                 logVars, dbVars>>

\* the write also closing the block
MarkSent_AlsoCompletes(b, t) ==
    IF b \in DOMAIN blocks
    THEN [blocks EXCEPT ![b].reminderSent = TRUE, ![b].reminderScheduledAt = t,
                        ![b].status = "completed"]
    ELSE blocks

\* the write with the reminderSent field left out
MarkSent_StampOnly(b, t) ==
    IF b \in DOMAIN blocks
    THEN [blocks EXCEPT ![b].reminderScheduledAt = t]
    ELSE blocks

\* QuietBlock.findByIdAndUpdate(id, {reminderSent: true, reminderScheduledAt: now})
MarkSent(b, t) ==
    IF b \in BlockIds
    THEN [blocks EXCEPT ![b].reminderSent = TRUE, ![b].reminderScheduledAt = t]
    ELSE blocks

\* an error that ends the loop instead of the iteration
CountError_Abort(s) ==
    [s EXCEPT !.pc = "loop", !.idx = Len(s.queue) + 1, !.emailResult = "none",
              !.errorCount = @ + 1]

\* the else branch and the per-block catch: errorCount++ and on to the next
\* block
CountError(s) ==
    [s EXCEPT !.pc = "loop", !.idx = @ + 1, !.emailResult = "none",
              !.errorCount = @ + 1]

\* the branch on emailResult after the notifier returned
HandleResult(i) ==
    /\ inv[i].pc = "sent"
    /\ LET entry == inv[i].queue[inv[i].idx]
       IN  IF ShouldMark(inv[i].emailResult)
           THEN /\ blocks' = MarkSent(entry.id, inv[i].now)
                /\ inv' = [inv EXCEPT ![i].pc = "loop",
                                      ![i].idx = @ + 1,
                                      ![i].emailResult = "none",
                                      ![i].successCount = @ + 1]
           ELSE /\ blocks' = blocks
                /\ inv' = [inv EXCEPT ![i] = CountError(inv[i])]
    /\ UNCHANGED <<now, variant, deliveries, lastResponse, call, writes, pending,
                 logVars, dbVars>>

\* the loop is exhausted (or the list was empty): return the summary
FinishInvocation(i) ==
    /\ inv[i].pc = "loop"
    /\ inv[i].idx > Len(inv[i].queue)
    /\ inv' = [inv EXCEPT ![i] = IdleInv]
    /\ UNCHANGED <<now, variant, blocks, deliveries, lastResponse, call, writes, pending,
                 logVars, dbVars>>

\* the handler instances are interchangeable: a new run takes the lowest
\* free slot
LowestIdle(i) == \A j \in 1..(i - 1) : inv[j].pc # "idle"

(***************************************************************************)
(* Create / update / delete requests of the quiet-blocks API               *)
(***************************************************************************)
\* reminderConfig as it leaves the request schema (defaults filled in when
\* the object is present)
ReminderConfig(en, mb, em) ==
    [present |-> TRUE, enabled |-> en, minutesBefore |-> mb, emailEnabled |-> em]

NoReminderConfig ==
    [present |-> FALSE, enabled |-> TRUE, minutesBefore |-> DefaultMinutesBefore,
     emailEnabled |-> TRUE]

\* the refinements of CreateQuietBlockSchema, evaluated at instant t
CreateQuietBlockSchema(startTime, endTime, t) ==
    /\ startTime < endTime
    /\ endTime >= t + EndBuffer
    /\ endTime - startTime >= MinDuration
    /\ endTime - startTime <= MaxDuration

\* the refinements of UpdateQuietBlockSchema that concern the time range
UpdateQuietBlockSchema(upd) ==
    (upd.startTime # Absent /\ upd.endTime # Absent /\ upd.date)
        => /\ upd.startTime < upd.endTime
           /\ upd.endTime - upd.startTime >= MinDuration
           /\ upd.endTime - upd.startTime <= MaxDuration

\* QuietBlockSchema.pre('save') together with the path validators that run
\* for the modified paths
SaveAccepts(doc, endModified, reminderModified) ==
    /\ endModified => doc.endTime > doc.startTime
    /\ (reminderModified /\ doc.reminderScheduledAt # NoDate)
           => doc.reminderScheduledAt < doc.startTime
    /\ ~(doc.endTime <= doc.startTime)
    /\ ~(doc.endTime - doc.startTime < MinDuration)

\* the document QuietBlockService.createQuietBlock hands to save()
createQuietBlock(user, startTime, endTime, rc) ==
    [owner |-> user,
     startTime |-> startTime,
     endTime |-> endTime,
     status |-> "scheduled",
     enabled |-> rc.enabled,
     minutesBefore |-> rc.minutesBefore,
     emailEnabled |-> rc.emailEnabled,
     reminderSent |-> FALSE,
     reminderScheduledAt |->
         IF rc.present /\ rc.enabled /\ rc.minutesBefore # 0
         THEN startTime - rc.minutesBefore
         ELSE startTime - DefaultMinutesBefore,
     isDeleted |-> FALSE]

\* what a request handler returns and leaves in the store: the response kind,
\* the conflicting block ids it lists, the store after the request and the
\* id of the block it wrote (Absent when none)
Outcome(kind, conflicts, store, touched) ==
    [kind |-> kind, conflicts |-> conflicts, store |-> store, touched |-> touched]

Rejected(kind, conflicts) == Outcome(kind, conflicts, blocks, Absent)

\* POST /api/quiet-blocks
CreateOutcome(user, startTime, endTime, rc) ==
    LET existingBlocks == getUserQuietBlocks(user, startTime - DayMinutes,
                                              endTime + DayMinutes)
        conflicting == checkQuietBlockOverlap(TimeSlot(startTime, endTime),
                                               existingBlocks, Absent)
        doc == createQuietBlock(user, startTime, endTime, rc)
    IN  IF ~CreateQuietBlockSchema(startTime, endTime, now)
        THEN Rejected("ValidationFailed", <<>>)
        ELSE IF validateTimeSlot(startTime, endTime, now) # "ok"
        THEN Rejected(validateTimeSlot(startTime, endTime, now), <<>>)
        ELSE IF conflicting # <<>>
        THEN Rejected("SCHEDULE_CONFLICT", conflicting)
        ELSE IF ~SaveAccepts(doc, TRUE, TRUE)
        THEN Rejected("InternalError", <<>>)
        ELSE Outcome("created", <<>>, Append(blocks, doc), Len(blocks) + 1)

\* undeclared keys passed through to the parsed data
StripUnknown_Passthrough(extra) == extra

\* z.object(...).safeParse: keys the schema does not declare are dropped
StripUnknown(extra) == NoExtra

\* new QuietBlock(quietBlockData): the schema defaults, overridden by the
\* fields the data carries
QuietBlockDocument(doc, extra) ==
    IF extra.present
    THEN [doc EXCEPT !.status = extra.status,
                     !.reminderSent = extra.reminderSent,
                     !.isDeleted = extra.isDeleted]
    ELSE doc

\* POST /api/quiet-blocks with a body that carries further keys
CreateBodyOutcome(user, startTime, endTime, rc, extra) ==
    LET r == CreateOutcome(user, startTime, endTime, rc)
    IN  IF r.kind # "created" THEN r
        ELSE [r EXCEPT !.store =
                  [@ EXCEPT ![r.touched] =
                       QuietBlockDocument(@, StripUnknown(extra))]]

NoUpdate ==
    [date |-> TRUE, startTime |-> Absent, endTime |-> Absent,
     status |-> "absent", rc |-> NoReminderConfig]

\* a time field of the request body is an instant only together with a date
InvalidDateIn(upd) ==
    ~upd.date /\ (upd.startTime # Absent \/ upd.endTime # Absent)

\* the fields QuietBlockService.updateQuietBlock assigns before save()
updateQuietBlock(doc, upd) ==
    LET d1 == IF upd.startTime # Absent
              THEN [doc EXCEPT !.startTime = upd.startTime] ELSE doc
        d2 == IF upd.endTime # Absent
              THEN [d1 EXCEPT !.endTime = upd.endTime] ELSE d1
        d3 == IF upd.status # "absent"
              THEN [d2 EXCEPT !.status = upd.status] ELSE d2
    IN  IF upd.rc.present
        THEN [d3 EXCEPT !.reminderScheduledAt = d3.startTime - upd.rc.minutesBefore,
                        !.reminderSent = FALSE]
        ELSE d3

\* the lookup by id alone
FindOwned_AnyOwner(id, user) == id \in BlockIds

\* findOne({_id, supabaseUserId})
FindOwned(id, user) == id \in BlockIds /\ blocks[id].owner = user

\* the service call made by PUT and PATCH once the route's checks passed
ApplyUpdate(id, user, upd, okKind) ==
    IF ~FindOwned(id, user) \/ InvalidDateIn(upd)
    THEN Rejected("InternalError", <<>>)
    ELSE LET doc == updateQuietBlock(blocks[id], upd)
         IN  IF SaveAccepts(doc, upd.endTime # Absent, upd.rc.present)
             THEN Outcome(okKind, <<>>, [blocks EXCEPT ![id] = doc], id)
             ELSE Rejected("InternalError", <<>>)

\* PUT /api/quiet-blocks/[id]
UpdateOutcome(user, id, upd) ==
    IF ~UpdateQuietBlockSchema(upd)
    THEN Rejected("ValidationFailed", <<>>)
    ELSE IF upd.startTime # Absent /\ upd.endTime # Absent
    THEN IF ~upd.date
         THEN Rejected("InvalidDate", <<>>)
         ELSE IF validateTimeSlot(upd.startTime, upd.endTime, now) # "ok"
         THEN Rejected(validateTimeSlot(upd.startTime, upd.endTime, now), <<>>)
         ELSE LET existingBlocks ==
                      getUserQuietBlocks(user, upd.startTime - DayMinutes,
                                         upd.endTime + DayMinutes)
                  conflicting ==
                      checkQuietBlockOverlap(
                          TimeSlot(upd.startTime, upd.endTime), existingBlocks, id)
              IN  IF conflicting # <<>>
                  THEN Rejected("Time conflict detected", conflicting)
                  ELSE ApplyUpdate(id, user, upd, "updated")
    ELSE ApplyUpdate(id, user, upd, "updated")

\* PATCH /api/quiet-blocks/[id]?action=complete
CompleteOutcome(user, id) ==
    ApplyUpdate(id, user, [NoUpdate EXCEPT !.status = "completed"], "completed")

\* getQuietBlockById: findOne({_id, supabaseUserId, isDeleted: false})
getQuietBlockById(id, user) == FindOwned(id, user) /\ blocks[id].isDeleted = FALSE

\* the delete flag set without forcing the status
deleteQuietBlock_FlagOnly(doc) == [doc EXCEPT !.isDeleted = TRUE]

\* QuietBlockService.deleteQuietBlock
deleteQuietBlock(doc) == [doc EXCEPT !.isDeleted = TRUE, !.status = "cancelled"]

\* DELETE /api/quiet-blocks/[id]
DeleteOutcome(user, id) ==
    IF getQuietBlockById(id, user)
    THEN Outcome("deleted", <<>>, [blocks EXCEPT ![id] = deleteQuietBlock(blocks[id])], id)
    ELSE Rejected("NotFound", <<>>)

\* the store after a request; a write to a block ends the count of the
\* reminders delivered for its previous contents
NoDeliveries == [ok |-> 0, failed |-> FALSE, to |-> "none"]

Commit(r, cap) ==
    /\ Len(r.store) <= cap
    /\ blocks' = r.store
    /\ deliveries' = IF r.touched = Absent THEN deliveries
                     ELSE IF r.touched > Len(deliveries)
                     THEN Append(deliveries, NoDeliveries)
                     ELSE [deliveries EXCEPT ![r.touched] = NoDeliveries]

\* a request whose response the caller receives
Request(r, req) ==
    /\ Commit(r, MaxApiBlocks)
    /\ lastResponse' = [kind |-> r.kind, conflicts |-> r.conflicts, req |-> req]
    /\ UNCHANGED <<now, variant, inv, call, writes, pending,
                 logVars, dbVars>>

\* the time range a block has once the update's time fields are assigned
RangeAfter(user, id, upd) ==
    IF FindOwned(id, user)
    THEN LET doc == updateQuietBlock(blocks[id], upd)
         IN  TimeSlot(doc.startTime, doc.endTime)
    ELSE TimeSlot(upd.startTime, upd.endTime)

\* the update names both time fields of a dated body and they are the range
\* the block already has
SameRange(user, id, upd) ==
    /\ FindOwned(id, user)
    /\ upd.date
    /\ upd.startTime = blocks[id].startTime
    /\ upd.endTime = blocks[id].endTime

\* a request that changed the store, its response not recorded
StoreWrite(r) ==
    /\ writes < MaxWrites
    /\ r.store # blocks
    /\ Commit(r, MaxBlocks)
    /\ writes' = writes + 1
    /\ UNCHANGED <<now, variant, inv, lastResponse, call, pending,
                 logVars, dbVars>>

CreateRequest(user, startTime, endTime, rc) ==
    Request(CreateOutcome(user, startTime, endTime, rc),
            [NoRequest EXCEPT !.op = "create", !.user = user, !.id = Len(blocks) + 1,
                              !.slot = TimeSlot(startTime, endTime),
                              !.changesRange = TRUE])

UpdateRequest(user, id, upd) ==
    Request(UpdateOutcome(user, id, upd),
            IF upd.startTime # Absent \/ upd.endTime # Absent
            THEN [NoRequest EXCEPT !.op = "update", !.user = user, !.id = id,
                                   !.slot = RangeAfter(user, id, upd),
                                   !.changesRange = TRUE,
                                   !.sameRange = SameRange(user, id, upd)]
            ELSE [NoRequest EXCEPT !.op = "update", !.user = user, !.id = id])

CreateBodyRequest(user, startTime, endTime, rc, extra) ==
    Request(CreateBodyOutcome(user, startTime, endTime, rc, extra),
            [NoRequest EXCEPT !.op = "create", !.user = user, !.id = Len(blocks) + 1,
                              !.slot = TimeSlot(startTime, endTime),
                              !.changesRange = TRUE,
                              !.extra = extra])

CompleteRequest(user, id) ==
    Request(CompleteOutcome(user, id),
            [NoRequest EXCEPT !.op = "complete", !.user = user, !.id = id])

DeleteRequest(user, id) ==
    Request(DeleteOutcome(user, id),
            [NoRequest EXCEPT !.op = "delete", !.user = user, !.id = id])

\* new Date(`${date}T${time}`): the instant of a clock time on a calendar date
InstantOf(date, time) ==
    IF time = Absent THEN Absent ELSE date * DayMinutes + time

\* the calendar date an instant falls on
DateOf(t) == t \div DayMinutes

\* POST with the body's date, startTime and endTime
CreateDated(user, date, startTime, endTime) ==
    CreateRequest(user, InstantOf(date, startTime), InstantOf(date, endTime),
                  NoReminderConfig)

\* PUT with the body's date and whichever of startTime and endTime it carries
UpdateDated(user, id, date, startTime, endTime) ==
    UpdateRequest(user, id,
                  [NoUpdate EXCEPT !.startTime = InstantOf(date, startTime),
                                   !.endTime = InstantOf(date, endTime)])

\* POST /api/quiet-blocks up to the await on createQuietBlock: the body is
\* validated and the overlap check has run against the store as it is now
BeginCreate(r, user, startTime, endTime) ==
    /\ pending[r].pc = "idle"
    /\ CreateOutcome(user, startTime, endTime, NoReminderConfig).kind = "created"
    /\ pending' = [pending EXCEPT ![r] = [pc |-> "checked", user |-> user,
                                          slot |-> TimeSlot(startTime, endTime)]]
    /\ UNCHANGED <<now, variant, blocks, inv, deliveries, lastResponse, call, writes,
                 logVars, dbVars>>

\* POST /api/quiet-blocks from createQuietBlock on: the document is saved
FinishCreate(r) ==
    /\ pending[r].pc = "checked"
    /\ LET doc == createQuietBlock(pending[r].user, pending[r].slot.startTime,
                                   pending[r].slot.endTime, NoReminderConfig)
       IN  /\ SaveAccepts(doc, TRUE, TRUE)
           /\ Commit(Outcome("created", <<>>, Append(blocks, doc), Len(blocks) + 1),
                     MaxApiBlocks)
    /\ pending' = [pending EXCEPT ![r] = NoPending]
    /\ UNCHANGED <<now, variant, inv, lastResponse, call, writes,
                 logVars, dbVars>>

(***************************************************************************)
(* Pure-function calls                                                     *)
(***************************************************************************)
CallOverlap(a, b) ==
    /\ call' = [NoCall EXCEPT !.op = "doTimeSlotsOverlap", !.a = a, !.b = b,
                              !.result = doTimeSlotsOverlap(a, b),
                              !.swapped = doTimeSlotsOverlap(b, a)]
    /\ UNCHANGED <<now, variant, blocks, inv, deliveries, lastResponse, writes, pending,
                 logVars, dbVars>>

\* both conflict tests applied to the same candidate and existing range
CallConflicts(a, b) ==
    /\ call' = [NoCall EXCEPT !.op = "checkForConflicts", !.a = a, !.b = b,
                              !.result = doTimeSlotsOverlap(a, b),
                              !.selected = checkForConflicts(a, b)]
    /\ UNCHANGED <<now, variant, blocks, inv, deliveries, lastResponse, writes, pending,
                 logVars, dbVars>>

\* validateTimeSlot(startTime, endTime) called at instant t
CallValidate(startTime, endTime, t) ==
    /\ call' = [NoCall EXCEPT !.op = "validateTimeSlot",
                              !.a = TimeSlot(startTime, endTime),
                              !.at = t,
                              !.verdict = validateTimeSlot(startTime, endTime, t)]
    /\ UNCHANGED <<now, variant, blocks, inv, deliveries, lastResponse, writes, pending,
                 logVars, dbVars>>

\* the stored blocks in every order a caller can pass them in
Orders ==
    {o \in [1..Len(blocks) -> BlockIds] :
        \A i, j \in 1..Len(blocks) : o[i] = o[j] => i = j}

\* checkQuietBlockOverlap(newBlock, existingBlocks) on the blocks in order o
CallCheckOverlap(newBlock, o) ==
    /\ call' = [NoCall EXCEPT !.op = "checkQuietBlockOverlap", !.a = newBlock,
                              !.given = o,
                              !.list = checkQuietBlockOverlap(newBlock, o, Absent)]
    /\ UNCHANGED <<now, variant, blocks, inv, deliveries, lastResponse, writes, pending,
                 logVars, dbVars>>

(***************************************************************************)
(* Inputs of the bounded runs                                              *)
(***************************************************************************)
StartTimes == {20, 35}
Durations == {15}
CreateConfigs ==
    {NoReminderConfig, ReminderConfig(TRUE, 3, TRUE), ReminderConfig(FALSE, 15, TRUE)}
UpdateInputs ==
    {[NoUpdate EXCEPT !.status = st] : st \in {"scheduled", "cancelled"}}
    \cup {[NoUpdate EXCEPT !.rc = ReminderConfig(TRUE, 3, TRUE)]}

\* a start between the two regular ones, so that one candidate can overlap both
ApiCreateStarts == StartTimes \cup {25}
ApiUpdateStarts == {25}
ApiUpdateEnds == {40}
ApiUpdateInputs ==
    {[NoUpdate EXCEPT !.startTime = st, !.endTime = en] :
        st \in ApiUpdateStarts \cup {Absent}, en \in ApiUpdateEnds \cup {Absent}}
    \cup {[NoUpdate EXCEPT !.startTime = st, !.endTime = en, !.date = FALSE] :
              st \in ApiUpdateStarts, en \in ApiUpdateEnds}
    \cup {[NoUpdate EXCEPT !.status = st] : st \in {"scheduled", "cancelled"}}

Instants == 0..MaxInstant

\* starts, lengths and clock readings around the limits of validateTimeSlot
ValidateStarts == {0, 5, 600}
ValidateLengths == {-1, 0, 14, 15, 16, 479, 480, 481}
ValidateClocks == {0, 5, 19, 20, 485, 700}
Slots == {TimeSlot(st, en) : st \in Instants, en \in Instants}

\* the owner's requests that reach the store while the scheduler runs
OwnerWrites ==
    \/ \E u \in Users, st \in StartTimes, d \in Durations, rc \in CreateConfigs :
           StoreWrite(CreateOutcome(u, st, st + d, rc))
    \/ \E u \in Users, id \in 1..MaxBlocks, upd \in UpdateInputs :
           StoreWrite(UpdateOutcome(u, id, upd))
    \/ \E u \in Users, id \in 1..MaxBlocks : StoreWrite(DeleteOutcome(u, id))

\* a create request accepted before the first poll
CreateBeforePolling ==
    /\ now = 0
    /\ \E u \in Users, st \in StartTimes, d \in Durations, rc \in CreateConfigs :
           StoreWrite(CreateOutcome(u, st, st + d, rc))

\* the cron job fires at the next minute while storage cannot be reached
CronTickUnreachable ==
    /\ now < MaxTime
    /\ inv[1].pc = "idle"
    /\ now' = now + 1
    /\ inv' = [inv EXCEPT ![1] = Aborted(now + 1)]
    /\ UNCHANGED <<variant, blocks, deliveries, lastResponse, call, writes, pending,
                 logVars, dbVars>>

\* a POST to the endpoint at the next minute, with any Authorization header
PostAt(authHeader) ==
    /\ now < MaxTime
    /\ inv[1].pc = "idle"
    /\ now' = now + 1
    /\ inv' = [inv EXCEPT ![1] = Admitted(authHeader, now + 1)]
    /\ UNCHANGED <<variant, blocks, deliveries, lastResponse, call, writes, pending,
                 logVars, dbVars>>

\* a block stored before polling begins; the user document of every owner
\* outside Users has been removed since, so its userId populates to null
SeedBlock(user, startTime, rc) ==
    /\ now = 0
    /\ inv[1].pc = "idle"
    /\ LET r == CreateOutcome(user, startTime, startTime + 15, rc)
       IN  r.kind = "created" /\ Commit(r, MaxLoopBlocks)
    /\ UNCHANGED <<now, variant, inv, lastResponse, call, writes, pending,
                 logVars, dbVars>>

\* the cron job fires at the next minute and the handler starts
CronTick ==
    /\ now < MaxTime
    /\ inv[1].pc = "idle"
    /\ now' = now + 1
    /\ inv' = [inv EXCEPT ![1] = StartedAt(now + 1)]
    /\ UNCHANGED <<variant, blocks, deliveries, lastResponse, call, writes, pending,
                 logVars, dbVars>>

(***************************************************************************)
(* Specifications                                                          *)
(***************************************************************************)
\* invocations of the scheduler never overlap, and each one finishes within
\* the minute in which it started
Next ==
    \/ (inv[1].pc = "idle" /\ Tick)
    \/ OwnerWrites
    \/ StartInvocation(1)
    \/ \E o \in Outcomes : ProcessBlock(1, o)
    \/ HandleResult(1)
    \/ FinishInvocation(1)

Spec == Init /\ [][Next]_vars

\* the trigger may fire again before the previous run finished
NextConc ==
    \/ Tick
    \/ CreateBeforePolling
    \/ \E i \in 1..MaxInv : LowestIdle(i) /\ StartInvocation(i)
    \/ \E i \in 1..MaxInv, o \in Outcomes : ProcessBlock(i, o)
    \/ \E i \in 1..MaxInv : HandleResult(i)
    \/ \E i \in 1..MaxInv : FinishInvocation(i)

SpecConc == Init /\ [][NextConc]_vars

\* the trigger fires once a minute, every run ends before the next one, the
\* notifier always succeeds and the blocks exist before polling begins
NextPoll ==
    \/ CreateBeforePolling
    \/ CronTick
    \/ ProcessBlock(1, "success")
    \/ HandleResult(1)
    \/ FinishInvocation(1)

SpecPoll == Init /\ [][NextPoll]_vars

\* the requests of the quiet-blocks API against a store no scheduler touches
NextApi ==
    \/ \E u \in Users, st \in ApiCreateStarts, d \in Durations :
           CreateRequest(u, st, st + d, NoReminderConfig)
    \/ \E u \in Users, id \in 1..MaxApiBlocks, upd \in ApiUpdateInputs :
           UpdateRequest(u, id, upd)
    \/ \E u \in Users, id \in 1..MaxApiBlocks : DeleteRequest(u, id)
    \/ \E u \in Users, id \in 1..MaxApiBlocks : CompleteRequest(u, id)

InitApi == Init /\ variant = "v90"

SpecApi == InitApi /\ [][NextApi]_vars

\* doTimeSlotsOverlap applied to every pair of slots over the instants
NextOverlap == \E a \in Slots, b \in Slots : CallOverlap(a, b)

SpecOverlap == InitApi /\ [][NextOverlap]_vars

\* create requests of one owner handled concurrently
NextRace ==
    \/ \E r \in 1..MaxPending, u \in Users, st \in ApiCreateStarts, d \in Durations :
           BeginCreate(r, u, st, st + d)
    \/ \E r \in 1..MaxPending : FinishCreate(r)
    \/ \E u \in Users, id \in 1..MaxApiBlocks : DeleteRequest(u, id)

SpecRace == InitApi /\ [][NextRace]_vars

\* validateTimeSlot applied around its limits
NextValidate ==
    \E st \in ValidateStarts, len \in ValidateLengths, t \in ValidateClocks :
        CallValidate(st, st + len, t)

SpecValidate == InitApi /\ [][NextValidate]_vars

\* two authenticated users sending requests for each other's block ids
Owners == {"u1", "u2"}
OwnerStarts == {20}
OwnerUpdateInputs ==
    {[NoUpdate EXCEPT !.startTime = 25, !.endTime = 40],
     [NoUpdate EXCEPT !.status = "cancelled"]}

NextOwner ==
    \/ \E u \in Owners, st \in OwnerStarts, d \in Durations :
           CreateRequest(u, st, st + d, NoReminderConfig)
    \/ \E u \in Owners, id \in 1..MaxApiBlocks, upd \in OwnerUpdateInputs :
           UpdateRequest(u, id, upd)
    \/ \E u \in Owners, id \in 1..MaxApiBlocks : DeleteRequest(u, id)
    \/ \E u \in Owners, id \in 1..MaxApiBlocks : CompleteRequest(u, id)

SpecOwner == InitApi /\ [][NextOwner]_vars

\* bodies around midnight: two calendar dates, clock times late and early
DayDates == {0, 1}
DayTimes == {1420, 1435}
EarlyTimes == {5}

NextDay ==
    \/ \E u \in Users, date \in DayDates, st \in DayTimes, en \in DayTimes :
           CreateDated(u, date, st, en)
    \/ \E u \in Users, id \in 1..MaxApiBlocks, date \in DayDates,
          st \in {1420, Absent}, en \in DayTimes \cup EarlyTimes \cup {Absent} :
           UpdateDated(u, id, date, st, en)

SpecDay == InitApi /\ [][NextDay]_vars

\* candidates checked against the stored blocks passed in any order
OrderCandidates == {TimeSlot(st, st + 30) : st \in ApiCreateStarts}

NextOrder ==
    \/ \E u \in Users, st \in ApiCreateStarts, d \in Durations :
           CreateRequest(u, st, st + d, NoReminderConfig)
    \/ \E u \in Users, id \in 1..MaxApiBlocks : DeleteRequest(u, id)
    \/ \E c \in OrderCandidates, o \in Orders : CallCheckOverlap(c, o)

SpecOrder == InitApi /\ [][NextOrder]_vars

\* several blocks in the list of one invocation, every notifier outcome
LoopConfigs == {NoReminderConfig, ReminderConfig(TRUE, 3, TRUE)}

NextLoop ==
    \/ \E u \in Owners, st \in StartTimes, rc \in LoopConfigs : SeedBlock(u, st, rc)
    \/ CronTick
    \/ \E o \in Outcomes : ProcessBlock(1, o)
    \/ HandleResult(1)
    \/ FinishInvocation(1)

SpecLoop == Init /\ [][NextLoop]_vars

\* polling with storage reachable at some invocations and not at others
NextOutage ==
    \/ \E u \in Users, st \in StartTimes, rc \in LoopConfigs : SeedBlock(u, st, rc)
    \/ CronTick
    \/ CronTickUnreachable
    \/ ReturnError(1)
    \/ \E o \in Outcomes : ProcessBlock(1, o)
    \/ HandleResult(1)
    \/ FinishInvocation(1)

SpecOutage == Init /\ [][NextOutage]_vars

\* polling over blocks of a user with a notification address, a user with
\* only the account address and a user whose record is gone
RecipientOwners == Owners \cup Notified

NextRecipient ==
    \/ \E u \in RecipientOwners, st \in StartTimes, rc \in LoopConfigs :
           SeedBlock(u, st, rc)
    \/ CronTick
    \/ \E o \in Outcomes : ProcessBlock(1, o)
    \/ HandleResult(1)
    \/ FinishInvocation(1)

SpecRecipient == Init /\ [][NextRecipient]_vars

\* polling over blocks whose reminder is due one minute before the start, so
\* that the send window reaches past the start
LateConfigs == {ReminderConfig(TRUE, 1, TRUE), ReminderConfig(TRUE, 3, TRUE)}

NextLate ==
    \/ \E u \in Users, st \in StartTimes, rc \in LateConfigs : SeedBlock(u, st, rc)
    \/ CronTick
    \/ \E o \in Outcomes : ProcessBlock(1, o)
    \/ HandleResult(1)
    \/ FinishInvocation(1)

SpecLate == Init /\ [][NextLate]_vars

\* the endpoint called with the right header, with near misses and without
AuthHeaders ==
    {Bearer(CronSecret), "none", "s3cret", "Bearer ", "Bearer s3cre",
     "Bearer s3cret ", "bearer s3cret"}

NextAuth ==
    \/ \E u \in Users, st \in StartTimes, rc \in LoopConfigs : SeedBlock(u, st, rc)
    \/ \E h \in AuthHeaders : PostAt(h)
    \/ ReturnUnauthorized(1)
    \/ ProcessBlock(1, "success")
    \/ HandleResult(1)
    \/ FinishInvocation(1)

SpecAuth == Init /\ [][NextAuth]_vars

(***************************************************************************)
(* EmailLog: failure bookkeeping and retry selection                       *)
(***************************************************************************)
RECURSIVE Pow2(_)
\* Math.pow(2, n)
Pow2(n) == IF n = 0 THEN 1 ELSE 2 * Pow2(n - 1)

\* retryCount: { $lte: 3 } in place of $lt
findPendingRetries_Lte(doc, t) ==
    /\ doc.status = "failed"
    /\ doc.retryCount <= 3
    /\ doc.nextRetryAt # NoDate
    /\ doc.nextRetryAt <= t

\* the filter of EmailLog.findPendingRetries evaluated at instant t; a
\* document without nextRetryAt does not match $lte
findPendingRetries(doc, t) ==
    /\ doc.status = "failed"
    /\ doc.retryCount < 3
    /\ doc.nextRetryAt # NoDate
    /\ doc.nextRetryAt <= t

\* the needsRetry virtual read at instant t
needsRetry(doc, t) ==
    /\ doc.status = "failed"
    /\ doc.retryCount < 3
    /\ doc.nextRetryAt # NoDate
    /\ doc.nextRetryAt <= t

\* doc.markAsFailed() at instant now: the delay is 2^retryCount minutes
markAsFailed ==
    /\ emailLog.retryCount < MaxRetryCount
    /\ LET retryCount == emailLog.retryCount + 1
       IN  emailLog' = [emailLog EXCEPT
               !.status = "failed",
               !.retryCount = retryCount,
               !.nextRetryAt = IF retryCount <= 3 THEN now + Pow2(retryCount)
                               ELSE @,
               !.failedInARow = @ + 1]
    /\ UNCHANGED <<now, schedulerVars, dbVars>>

\* doc.markAsSent(): the retry of a failed email went through
markAsSent ==
    /\ emailLog.status # "sent"
    /\ emailLog' = [emailLog EXCEPT !.status = "sent", !.failedInARow = 0]
    /\ UNCHANGED <<now, schedulerVars, dbVars>>

\* a retry worker asks which documents are due, by the query and by the virtual
PollRetries ==
    /\ call' = [NoCall EXCEPT !.op = "findPendingRetries", !.at = now,
                              !.result = findPendingRetries(emailLog, now),
                              !.selected = needsRetry(emailLog, now)]
    /\ UNCHANGED <<now, variant, blocks, inv, deliveries, lastResponse, writes,
                   pending, logVars, dbVars>>

NextRetry == Tick \/ markAsFailed \/ markAsSent \/ PollRetries

SpecRetry == InitApi /\ [][NextRetry]_vars

(***************************************************************************)
(* The cached database connection.  connects[p] is the promise of the p-th *)
(* mongoose.connect call; a connection is named after its promise.         *)
(***************************************************************************)
\* connect on every call, whatever the cache holds
NeedsConnect_Always == TRUE

\* if (!cached.promise)
NeedsConnect == cached.promise = NoConnect

\* mongoose.connect calls that have not settled
InFlight == {p \in DOMAIN connects : connects[p] = "pending"}

\* callers whose awaited promise has settled and whose continuation has not
\* run yet: the promise jobs that are queued
Ready == {c \in Callers : /\ callers[c].pc = "awaiting"
                           /\ connects[callers[c].promise] # "pending"}

\* connectToDatabase() up to its await.  A call enters from a task of its
\* own, so the jobs of a settled promise have all run before it.
connectToDatabase(c) ==
    /\ callers[c].pc = "idle"
    /\ Ready = {}
    /\ IF cached.conn # NoConnect
       THEN /\ callers' = [callers EXCEPT ![c] =
                   [IdleCaller EXCEPT !.result = "returned", !.conn = cached.conn]]
            /\ UNCHANGED <<cached, connects>>
       ELSE /\ NeedsConnect => Len(connects) < MaxConnects
            /\ connects' = IF NeedsConnect THEN Append(connects, "pending")
                           ELSE connects
            /\ cached' = IF NeedsConnect
                         THEN [cached EXCEPT !.promise = Len(connects) + 1]
                         ELSE cached
            /\ callers' = [callers EXCEPT ![c] =
                   [IdleCaller EXCEPT !.pc = "awaiting", !.promise = cached'.promise]]
    /\ UNCHANGED <<now, schedulerVars, logVars>>

\* mongoose.connect resolves or rejects its promise
Settle(p, outcome) ==
    /\ p \in InFlight
    /\ connects' = [connects EXCEPT ![p] = outcome]
    /\ UNCHANGED <<now, schedulerVars, logVars, cached, callers>>

\* connectToDatabase() after its await: the try block or the catch block
Resume(c) ==
    /\ c \in Ready
    /\ LET p == callers[c].promise
       IN  IF connects[p] = "fulfilled"
           THEN /\ cached' = [cached EXCEPT !.conn = p]
                /\ callers' = [callers EXCEPT ![c] =
                       [IdleCaller EXCEPT !.result = "returned", !.conn = p]]
           ELSE /\ cached' = [cached EXCEPT !.promise = NoConnect]
                /\ callers' = [callers EXCEPT ![c] =
                       [IdleCaller EXCEPT !.result = "thrown"]]
    /\ UNCHANGED <<now, schedulerVars, logVars, connects>>

NextConnect ==
    \/ \E c \in Callers : connectToDatabase(c)
    \/ \E p \in 1..MaxConnects, outcome \in {"fulfilled", "rejected"} :
            Settle(p, outcome)
    \/ \E c \in Callers : Resume(c)

SpecConnect == InitApi /\ [][NextConnect]_vars

\* the two conflict tests applied to every pair of slots over the instants
NextConflicts == \E a \in Slots, b \in Slots : CallConflicts(a, b)

SpecConflicts == InitApi /\ [][NextConflicts]_vars

\* create bodies that try to set the fields the server owns
BodyExtras ==
    {NoExtra, Extra("completed", TRUE, TRUE), Extra("cancelled", FALSE, TRUE),
     Extra("active", TRUE, FALSE)}

\* create requests with arbitrary bodies, and deletes
NextBody ==
    \/ \E u \in Users, st \in ApiCreateStarts, d \in Durations,
          rc \in CreateConfigs, x \in BodyExtras :
           CreateBodyRequest(u, st, st + d, rc, x)
    \/ \E u \in Users, id \in 1..MaxApiBlocks : DeleteRequest(u, id)

SpecBody == InitApi /\ [][NextBody]_vars

\* edits of one field of the time range: an end of the same day far after the
\* start, an end close to it, a later start
EditEnds == {40, 520}
EditStarts == {25}
EditInputs ==
    {[NoUpdate EXCEPT !.endTime = en] : en \in EditEnds}
    \cup {[NoUpdate EXCEPT !.startTime = st] : st \in EditStarts}
    \cup {[NoUpdate EXCEPT !.startTime = st, !.endTime = en] :
              st \in EditStarts, en \in EditEnds}

\* creates followed by PUT requests that move the start, the end or both
NextEdit ==
    \/ \E u \in Users, st \in ApiCreateStarts, d \in Durations :
           CreateRequest(u, st, st + d, NoReminderConfig)
    \/ \E u \in Users, id \in 1..MaxApiBlocks, upd \in EditInputs :
           UpdateRequest(u, id, upd)

SpecEdit == InitApi /\ [][NextEdit]_vars

(***************************************************************************)
(* Properties                                                              *)
(***************************************************************************)
\* the queue entry an invocation is working on
Entry(i) == inv[i].queue[inv[i].idx]

\* the notifier has just been called for Entry(i)
Dispatching(i) == inv[i].pc = "sent"

\* scheduled, not deleted, reminders and email enabled, reminder not sent
Eligible(doc) ==
    /\ doc.status = "scheduled"
    /\ doc.isDeleted = FALSE
    /\ doc.enabled
    /\ doc.emailEnabled
    /\ doc.reminderSent = FALSE

\* the slack each variant allows after (v5: before) the reminder time
ToleranceOf(v) ==
    CASE v = "v90" -> Tolerance90
      [] v = "v5" -> Window5
      [] v = "backup" -> ToleranceBackup

InDueWindow(doc, t) ==
    reminderTime(doc) <= t /\ t <= reminderTime(doc) + ToleranceOf(variant)

\* the invocation with locals rec sends for block b
TreatedAsDue(b, rec) ==
    \E k \in DOMAIN rec.queue :
        rec.queue[k].id = b /\ SendsFor(variant, rec.queue[k], rec.now)

C2_NoConcurrentDoubleDispatch ==
    \A i \in 1..MaxInv, j \in 1..MaxInv :
        i # j => \A b \in inv[i].sentIds \cap inv[j].sentIds : deliveries[b].ok <= 1

\* C3: reminderSent goes from false to true only in the step in which an
\* invocation handles a successful notifier result for that block, and the
\* step that handles a failed or thrown result leaves the store unchanged.
C3_MarkOnlyAfterSuccess ==
    [][ /\ \A b \in DOMAIN blocks :
              (b \in DOMAIN blocks' /\ blocks[b].reminderSent = FALSE
                                    /\ blocks'[b].reminderSent = TRUE)
                  => \E i \in 1..MaxInv :
                        /\ Dispatching(i)
                        /\ inv[i].emailResult = "success"
                        /\ Entry(i).id = b
                        /\ inv'[i].pc = "loop"
        /\ \A i \in 1..MaxInv :
              (Dispatching(i) /\ inv[i].emailResult # "success" /\ inv'[i].pc = "loop")
                  => blocks' = blocks
      ]_vars

\* a block whose delivery failed, was attempted again and was then marked
C3_RetriedAfterFailure ==
    \E b \in DOMAIN blocks :
        /\ deliveries[b].failed
        /\ deliveries[b].ok = 1
        /\ blocks[b].reminderSent = TRUE

\* C4: when an invocation starts, it sends for an eligible block exactly
\* when now lies in [reminderTime, reminderTime + tolerance].
C4_DueIffInWindow ==
    [][ (inv[1].pc = "idle" /\ inv'[1].pc = "loop")
            => \A b \in DOMAIN blocks :
                  Eligible(blocks[b])
                      => (TreatedAsDue(b, inv'[1]) <=> InDueWindow(blocks[b], now))
      ]_vars

\* C5: no reminder is handed to the notifier at an instant before the
\* block's reminder time.
C5_NeverBeforeReminderTime ==
    \A i \in 1..MaxInv :
        Dispatching(i) => inv[i].now >= reminderTime(Entry(i).doc)

\* C6: polled every minute with a notifier that succeeds, a block that stays
\* scheduled, not deleted and enabled has, once its window has passed, been
\* delivered at an instant inside [reminderTime, reminderTime + tolerance].
C6_WindowNeverSkipped ==
    \A b \in DOMAIN blocks :
        LET doc == blocks[b]
            due == doc.startTime - doc.minutesBefore
        IN  (/\ doc.status = "scheduled" /\ doc.isDeleted = FALSE
             /\ doc.enabled /\ doc.emailEnabled
             /\ now > due + ToleranceOf(variant))
                => /\ doc.reminderSent = TRUE
                   /\ doc.reminderScheduledAt >= due
                   /\ doc.reminderScheduledAt <= due + ToleranceOf(variant)

\* C7: every reminder handed to the notifier is for a block that, when the
\* invocation read it, was scheduled, not deleted, had reminders and email
\* enabled and reminderSent = false.
C7_OnlyEligibleDispatched ==
    \A i \in 1..MaxInv : Dispatching(i) => Eligible(Entry(i).doc)

\* the owner's other blocks that count for conflicts
CountsForConflict(b, req) ==
    /\ b # req.id
    /\ blocks[b].owner = req.user
    /\ blocks[b].isDeleted = FALSE
    /\ blocks[b].status \in {"scheduled", "active"}

\* C8: a create, or an update that changes the time range, whose resulting
\* interval overlaps another non-deleted scheduled or active block of the
\* owner is rejected and leaves the store unchanged.
C8_OverlappingWriteRejected ==
    [][ LET req == lastResponse'.req
        IN  (/\ req.changesRange
             /\ \E b \in DOMAIN blocks :
                   /\ CountsForConflict(b, req)
                   /\ doTimeSlotsOverlap(req.slot,
                          TimeSlot(blocks[b].startTime, blocks[b].endTime)))
                => /\ lastResponse'.kind \notin {"created", "updated"}
                   /\ blocks' = blocks
      ]_vars

\* C9: the result of doTimeSlotsOverlap(a, b) is true exactly when
\* a.start < b.end and b.start < a.end; slots that only touch do not
\* overlap and a slot strictly inside another overlaps it.
C9_OverlapIsHalfOpenIntersection ==
    call.op = "doTimeSlotsOverlap" =>
        LET a == call.a
            b == call.b
        IN  /\ call.result <=> (a.startTime < b.endTime /\ b.startTime < a.endTime)
            /\ (a.startTime <= a.endTime /\ a.endTime = b.startTime
                    /\ b.startTime <= b.endTime) => call.result = FALSE
            /\ (a.startTime < b.startTime /\ b.startTime <= b.endTime
                    /\ b.endTime < a.endTime) => call.result = TRUE

\* two slots of positive length that touch, and one strictly inside another
C9_TouchingSlots ==
    /\ call.op = "doTimeSlotsOverlap"
    /\ call.a.startTime < call.a.endTime
    /\ call.a.endTime = call.b.startTime
    /\ call.b.startTime < call.b.endTime
    /\ call.result = FALSE

\* C10: doTimeSlotsOverlap gives the same result with its arguments
\* exchanged, and a slot of positive length overlaps itself.
C10_SymmetricAndReflexive ==
    call.op = "doTimeSlotsOverlap" =>
        /\ call.result = call.swapped
        /\ (call.a = call.b /\ call.a.startTime < call.a.endTime)
               => call.result = TRUE

\* a slot of positive length compared with itself
C10_SelfOverlap ==
    /\ call.op = "doTimeSlotsOverlap"
    /\ call.a = call.b
    /\ call.a.startTime < call.a.endTime
    /\ call.result = TRUE

\* C11: validateTimeSlot(start, end) at instant t reports the first failing
\* rule in the order invalid range, past end, too short, too long, and accepts
\* otherwise; 14 minutes is too short, 15 minutes and 8 hours are accepted,
\* 8 hours 1 minute is too long.
C11_FirstFailingRule ==
    call.op = "validateTimeSlot" =>
        LET st == call.a.startTime
            en == call.a.endTime
            t == call.at
            expected ==
                IF st >= en THEN "InvalidRange"
                ELSE IF en <= t THEN "PastEnd"
                ELSE IF en - st < 15 THEN "TooShort"
                ELSE IF en - st > 480 THEN "TooLong"
                ELSE "ok"
        IN  /\ call.verdict = expected
            /\ (en > t /\ en - st = 14) => call.verdict = "TooShort"
            /\ (en > t /\ en - st \in {15, 480}) => call.verdict = "ok"
            /\ (en > t /\ en - st = 481) => call.verdict = "TooLong"

\* a slot that is both over and too short is reported as over
C11_PastAndShort ==
    /\ call.op = "validateTimeSlot"
    /\ call.a.startTime < call.a.endTime
    /\ call.a.endTime <= call.at
    /\ call.a.endTime - call.a.startTime < 15
    /\ call.verdict = "PastEnd"

\* the kinds of response that report a schedule conflict
ConflictKinds == {"SCHEDULE_CONFLICT", "Time conflict detected"}

\* C12: a conflict response lists every block considered by the check (the
\* owner's non-deleted blocks starting within a day of the candidate, other
\* than the block being edited) that overlaps the candidate interval, never
\* only the first one found.
C12_ConflictListExhaustive ==
    [][ lastResponse'.kind \in ConflictKinds
            => LET req == lastResponse'.req
               IN  \A b \in DOMAIN blocks :
                      (/\ b # req.id
                       /\ blocks[b].owner = req.user
                       /\ blocks[b].isDeleted = FALSE
                       /\ blocks[b].startTime >= req.slot.startTime - DayMinutes
                       /\ blocks[b].startTime <= req.slot.endTime + DayMinutes
                       /\ req.slot.startTime < blocks[b].endTime
                       /\ blocks[b].startTime < req.slot.endTime)
                          => b \in Range(lastResponse'.conflicts)
      ]_vars

\* a create rejected with two conflicting blocks in the response
C12_TwoConflictsListed ==
    /\ lastResponse.kind = "SCHEDULE_CONFLICT"
    /\ Len(lastResponse.conflicts) = 2
    /\ lastResponse.conflicts[1] # lastResponse.conflicts[2]

\* C13: a block whose status is completed or cancelled never appears in the
\* conflict list of a rejected create or update.
C13_FinishedBlocksNeverConflict ==
    lastResponse.kind \in ConflictKinds
        => \A k \in DOMAIN lastResponse.conflicts :
              blocks[lastResponse.conflicts[k]].status \notin {"completed", "cancelled"}

\* block b is another block of the request's owner whose interval overlaps
\* the candidate interval of the request
OverlapsCandidate(b, req) ==
    /\ b # req.id
    /\ blocks[b].owner = req.user
    /\ req.slot.startTime < blocks[b].endTime
    /\ blocks[b].startTime < req.slot.endTime

\* C14: a soft-deleted block never appears in a conflict list, and a create
\* or update whose interval overlaps only soft-deleted blocks is not rejected
\* as a conflict.
C14_DeletedBlocksNeverConflict ==
    [][ LET req == lastResponse'.req
        IN  /\ \A k \in DOMAIN lastResponse'.conflicts :
                   blocks[lastResponse'.conflicts[k]].isDeleted = FALSE
            /\ (/\ req.changesRange
                /\ \A b \in DOMAIN blocks :
                       OverlapsCandidate(b, req) => blocks[b].isDeleted)
                   => lastResponse'.kind \notin ConflictKinds
      ]_vars

\* a create accepted over the interval of a soft-deleted block
C14_CreatedOverDeleted ==
    /\ lastResponse.kind = "created"
    /\ \E b \in DOMAIN blocks :
           /\ OverlapsCandidate(b, lastResponse.req)
           /\ blocks[b].isDeleted

\* C15: an update never lists the edited block itself as a conflict; an update
\* that sets a block to the range it already has, with no other non-deleted
\* block overlapping, is accepted; and a conflict response of an update still
\* lists the other overlapping blocks.
C15_SelfExcludedOnEdit ==
    [][ LET req == lastResponse'.req
            others == {b \in DOMAIN blocks :
                          OverlapsCandidate(b, req) /\ blocks[b].isDeleted = FALSE}
        IN  /\ req.id \notin Range(lastResponse'.conflicts)
            /\ (req.sameRange /\ others = {})
                   => /\ lastResponse'.kind \notin ConflictKinds
                      /\ validateTimeSlot(req.slot.startTime, req.slot.endTime, now) = "ok"
                             => lastResponse'.kind = "updated"
            /\ (req.id \in DOMAIN blocks /\ lastResponse'.kind \in ConflictKinds)
                   => others \subseteq Range(lastResponse'.conflicts)
      ]_vars

\* an update of a non-deleted block to its own range, accepted
C15_SameRangeAccepted ==
    /\ lastResponse.kind = "updated"
    /\ lastResponse.req.sameRange
    /\ blocks[lastResponse.req.id].isDeleted = FALSE
    /\ blocks[lastResponse.req.id].status = "scheduled"

\* C16: create requests of one owner whose intervals overlap each other are
\* never both accepted, also when they are handled concurrently: no two
\* non-deleted blocks of an owner that were both created overlap.
C16_ConcurrentCreatesExclude ==
    \A a \in DOMAIN blocks, b \in DOMAIN blocks :
        (/\ a # b
         /\ blocks[a].owner = blocks[b].owner
         /\ blocks[a].isDeleted = FALSE
         /\ blocks[b].isDeleted = FALSE)
            => ~(/\ blocks[a].startTime < blocks[b].endTime
                 /\ blocks[b].startTime < blocks[a].endTime)

\* C17: after a step that changes a stored block's start time or its reminder
\* offset, the block has reminderSent = false and reminderScheduledAt equal
\* to its new start time minus its new minutesBefore.
C17_ReminderResetOnReschedule ==
    [][ \A b \in DOMAIN blocks :
           (/\ b \in DOMAIN blocks'
            /\ \/ blocks'[b].startTime # blocks[b].startTime
               \/ blocks'[b].minutesBefore # blocks[b].minutesBefore)
               => /\ blocks'[b].reminderSent = FALSE
                  /\ blocks'[b].reminderScheduledAt =
                         blocks'[b].startTime - blocks'[b].minutesBefore
      ]_vars

\* C18: once a block's reminderSent is true it stays true, except in a step
\* that changes the block's start time or its reminder offset (the distance
\* from reminderScheduledAt to the start time).
C18_SentStaysSent ==
    [][ \A b \in DOMAIN blocks :
           (/\ b \in DOMAIN blocks'
            /\ blocks[b].reminderSent = TRUE
            /\ blocks'[b].reminderSent = FALSE)
               => \/ blocks'[b].startTime # blocks[b].startTime
                  \/ blocks'[b].startTime - blocks'[b].reminderScheduledAt
                         # blocks[b].minutesBefore
      ]_vars

\* C19: every stored block has reminderScheduledAt = startTime - minutesBefore
\* (after create, after every update, after the scheduler marked it sent).
C19_ScheduledAtIsStartMinusOffset ==
    \A b \in DOMAIN blocks :
        blocks[b].reminderScheduledAt = blocks[b].startTime - blocks[b].minutesBefore

\* C20: every stored block has startTime < endTime and a duration of at least
\* 15 minutes and at most 8 hours.
C20_StoredRangeWithinLimits ==
    \A b \in DOMAIN blocks :
        /\ blocks[b].startTime < blocks[b].endTime
        /\ blocks[b].endTime - blocks[b].startTime >= MinDuration
        /\ blocks[b].endTime - blocks[b].startTime <= MaxDuration

\* C21: the block stored by an accepted create request has status scheduled,
\* reminderSent false and isDeleted false, whatever the body carried.
C21_CreatedWithServerDefaults ==
    [][ (lastResponse'.kind = "created" /\ Len(blocks') = Len(blocks) + 1)
            => /\ blocks'[Len(blocks')].status = "scheduled"
               /\ blocks'[Len(blocks')].reminderSent = FALSE
               /\ blocks'[Len(blocks')].isDeleted = FALSE
      ]_vars

\* a create whose body asked for a finished, sent, deleted block was accepted
C21_CreatedFromLoadedBody ==
    /\ lastResponse.kind = "created"
    /\ lastResponse.req.extra = Extra("completed", TRUE, TRUE)
    /\ lastResponse.req.id = Len(blocks)

\* C22: a successful delete sets isDeleted and status cancelled on the block
\* and keeps the record; no request ever shortens the store.
C22_DeleteIsSoft ==
    [][ /\ Len(blocks') >= Len(blocks)
        /\ lastResponse'.kind = "deleted"
               => /\ lastResponse'.req.id \in DOMAIN blocks'
                  /\ blocks'[lastResponse'.req.id].isDeleted = TRUE
                  /\ blocks'[lastResponse'.req.id].status = "cancelled"
      ]_vars

\* a block of a two-block store was deleted and both records are still there
C22_DeletedRecordKept ==
    /\ lastResponse.kind = "deleted"
    /\ Len(blocks) = 2
    /\ blocks[lastResponse.req.id].isDeleted = TRUE
    /\ \E b \in DOMAIN blocks : blocks[b].isDeleted = FALSE

C24_MissingBlockIsNotFound ==
    [][ LET req == lastResponse'.req
        IN  (/\ req.op \in {"update", "complete", "delete"}
             /\ \/ ~FindOwned(req.id, req.user)
                \/ (req.op = "delete" /\ blocks[req.id].isDeleted))
                => /\ lastResponse'.kind = "NotFound"
                   /\ blocks' = blocks
      ]_vars

\* C25: every conflict rejection, of a create and of an update alike, has
\* the error kind SCHEDULE_CONFLICT and lists its conflicting blocks.
C25_ConflictKindIsScheduleConflict ==
    (lastResponse.kind \in ConflictKinds \/ lastResponse.conflicts # <<>>)
        => /\ lastResponse.kind = "SCHEDULE_CONFLICT"
           /\ lastResponse.conflicts # <<>>

\* C26: a request whose resulting range starts and ends on different calendar
\* dates is answered CrossesMidnight, and every stored block starts and ends
\* on the same calendar date.
C26_NoBlockCrossesMidnight ==
    /\ \A b \in DOMAIN blocks :
           DateOf(blocks[b].startTime) = DateOf(blocks[b].endTime)
    /\ (/\ lastResponse.req.changesRange
         /\ lastResponse.req.slot.startTime # Absent
         /\ lastResponse.req.slot.startTime < lastResponse.req.slot.endTime
         /\ DateOf(lastResponse.req.slot.startTime)
                # DateOf(lastResponse.req.slot.endTime))
            => lastResponse.kind = "CrossesMidnight"

C28_FailuresStayLocal ==
    [][ LET a == inv[1]
            b == inv'[1]
        IN  /\ b.successCount + b.errorCount <= b.checked
            /\ (a.pc \in {"loop", "sent"} /\ b # a /\ b.pc # "idle")
                   => b.queue = a.queue /\ b.idx \in {a.idx, a.idx + 1}
            /\ (a.pc = "sent" /\ b # a)
                   => /\ b.pc = "loop" /\ b.idx = a.idx + 1
                      /\ IF a.emailResult = "success"
                         THEN /\ blocks'[Entry(1).id].reminderSent = TRUE
                              /\ b.successCount = a.successCount + 1
                              /\ b.errorCount = a.errorCount
                         ELSE /\ blocks' = blocks
                              /\ b.successCount = a.successCount
                              /\ b.errorCount = a.errorCount + 1
            /\ (a.pc = "loop" /\ b # a /\ b.pc = "loop")
                   => /\ blocks' = blocks
                      /\ b.idx = a.idx + 1
                      /\ b.successCount = a.successCount
                      /\ b.errorCount = a.errorCount
                             + (IF UserResolved(Entry(1).doc) THEN 0 ELSE 1)
      ]_vars

\* the first block of the list failed, the second one was sent and marked
C28_SentAfterFailure ==
    /\ inv[1].pc = "loop"
    /\ Len(inv[1].queue) = 2
    /\ inv[1].idx = 3
    /\ inv[1].errorCount = 1
    /\ inv[1].successCount = 1
    /\ blocks[inv[1].queue[1].id].reminderSent = FALSE
    /\ blocks[inv[1].queue[2].id].reminderSent = TRUE

\* a stored block the invocation would have sent a reminder for at instant t
DueAt(b, t) ==
    /\ CandidateQuery(variant, blocks[b], t)
    /\ shouldSendNow(variant, blocks[b], t)
    /\ UserResolved(blocks[b])

\* C29: an invocation that cannot reach storage when it starts is aborted:
\* it has nothing fetched, calls the notifier for no block and writes no
\* block.
C29_OutageAbortsInvocation ==
    [][ (inv'[1].storage = "down" \/ inv[1].storage = "down")
            => /\ inv'[1].storage = "down"
                     => /\ inv'[1].pc = "failed"
                        /\ inv'[1].queue = <<>>
                        /\ inv'[1].sentIds = {}
               /\ blocks' = blocks
               /\ deliveries' = deliveries
      ]_vars

\* storage was unreachable at an invocation that had a reminder to send
C29_OutageWhileDue ==
    /\ inv[1].pc = "failed"
    /\ \E b \in DOMAIN blocks : DueAt(b, inv[1].now)

\* C30: the scheduler changes a stored block only when the notifier has just
\* succeeded for it, and then only its reminderSent flag and its dispatch
\* stamp; fetching and filtering change nothing.
C30_SchedulerWritesOnlyOnDispatch ==
    [][ (Len(blocks') = Len(blocks))
            => \A b \in DOMAIN blocks :
                   blocks'[b] # blocks[b]
                       => /\ inv[1].pc = "sent"
                          /\ inv[1].emailResult = "success"
                          /\ Entry(1).id = b
                          /\ blocks'[b] =
                                 [blocks[b] EXCEPT !.reminderSent = TRUE,
                                                   !.reminderScheduledAt = inv[1].now]
      ]_vars

\* an invocation that fetched two blocks has marked one of them and left the
\* other, for which the notifier failed, as it was
C30_OneMarkedOneUntouched ==
    /\ inv[1].pc = "loop"
    /\ Len(inv[1].queue) = 2
    /\ inv[1].idx = 3
    /\ inv[1].successCount = 1
    /\ inv[1].errorCount = 1
    /\ blocks[inv[1].queue[1].id].reminderSent = TRUE
    /\ blocks[inv[1].queue[2].id] = inv[1].queue[2].doc

\* C31: a reminder goes to the owner's notification address when the owner
\* has one and to the account address otherwise; a fetched block whose owner
\* cannot be resolved is counted as an error, never handed to the notifier
\* and never marked sent.
C31_RecipientResolution ==
    [][ /\ \A b \in DOMAIN blocks' :
               /\ deliveries'[b].to # "none"
                      => deliveries'[b].to =
                             (IF blocks'[b].owner = "u3" THEN "notification"
                              ELSE "primary")
               /\ blocks'[b].owner = "u2"
                      => /\ deliveries'[b] = NoDeliveries
                         /\ blocks'[b].reminderSent = FALSE
        /\ (/\ inv[1].pc = "loop" /\ inv'[1] # inv[1] /\ inv'[1].pc # "idle"
             /\ Entry(1).doc.owner = "u2")
               => /\ inv'[1].pc = "loop"
                  /\ inv'[1].errorCount = inv[1].errorCount + 1
      ]_vars

\* a reminder went to a notification address, and in the same invocation a
\* block without a resolvable owner was counted as an error
C31_NotificationAndUnresolved ==
    /\ inv[1].errorCount >= 1
    /\ \E b \in DOMAIN blocks :
           /\ blocks[b].owner = "u3"
           /\ deliveries[b].to = "notification"
           /\ blocks[b].reminderSent = TRUE
    /\ \E k \in 1..(inv[1].idx - 1) :
           k \in DOMAIN inv[1].queue /\ inv[1].queue[k].doc.owner = "u2"

\* a block that occupies its time range: not deleted, scheduled or active
Occupying(b) ==
    /\ blocks[b].isDeleted = FALSE
    /\ blocks[b].status \in {"scheduled", "active"}

\* C32: with the owner's requests handled one at a time, no two of the
\* owner's blocks that are not deleted and are scheduled or active overlap.
C32_NoOverlapAmongLiveBlocks ==
    \A b1, b2 \in DOMAIN blocks :
        (/\ b1 # b2
         /\ blocks[b1].owner = blocks[b2].owner
         /\ Occupying(b1) /\ Occupying(b2))
            => ~doTimeSlotsOverlap(
                   TimeSlot(blocks[b1].startTime, blocks[b1].endTime),
                   TimeSlot(blocks[b2].startTime, blocks[b2].endTime))

\* C33: a deleted block has status cancelled, a deleted block is never
\* undeleted, and no request changes the status of a deleted block.
C33_DeletedStaysCancelled ==
    [][ \A b \in DOMAIN blocks' :
            /\ blocks'[b].isDeleted => blocks'[b].status = "cancelled"
            /\ (b \in DOMAIN blocks /\ blocks[b].isDeleted)
                   => /\ blocks'[b].isDeleted
                      /\ blocks'[b].status = blocks[b].status
      ]_vars

\* C34: whenever the notifier is called, the block it is called for starts at
\* or after the instant of the invocation, so minutesUntilStart is not
\* negative.
C34_NoDispatchAfterStart ==
    Dispatching(1)
        => /\ Entry(1).doc.startTime >= inv[1].now
           /\ minutesUntilStart(Entry(1).doc, inv[1].now) >= 0

\* an invocation ran after the start of an unsent block whose send window
\* was still open, and did not fetch it
C34_WindowOpenAfterStart ==
    /\ inv[1].pc = "loop"
    /\ \E b \in DOMAIN blocks :
           /\ blocks[b].reminderSent = FALSE
           /\ blocks[b].startTime < inv[1].now
           /\ shouldSendNow(variant, blocks[b], inv[1].now)
           /\ deliveries[b].failed
           /\ \A k \in DOMAIN inv[1].queue : inv[1].queue[k].id # b

\* C35: when the owner has rescheduled a block's reminder since the
\* invocation fetched it, the invocation marks the block sent only if a
\* reminder was delivered after that update.
C35_LateMarkKeepsNewSchedule ==
    [][ \A b \in DOMAIN blocks :
            (/\ blocks[b].reminderSent = FALSE
             /\ blocks'[b].reminderSent = TRUE
             /\ \/ blocks[b].reminderScheduledAt # Entry(1).doc.reminderScheduledAt
                \/ blocks[b].startTime # Entry(1).doc.startTime)
                => deliveries[b].ok >= 1
      ]_vars

\* C36: a POST whose Authorization header is not exactly Bearer <CRON_SECRET>
\* gets the 401 response with nothing fetched, and neither calls the notifier
\* nor changes a block.
C36_UnauthorizedTouchesNothing ==
    [][ (inv'[1].auth # "Bearer s3cret" \/ inv[1].auth # "Bearer s3cret")
            => /\ inv'[1].auth # "Bearer s3cret"
                     => /\ inv'[1].pc = "unauthorized"
                        /\ inv'[1].queue = <<>>
                        /\ inv'[1].checked = 0
               /\ blocks' = blocks
               /\ deliveries' = deliveries
      ]_vars

\* a POST with the secret in the wrong case was turned away while a reminder
\* was due
C36_NearMissRefusedWhileDue ==
    /\ inv[1].pc = "unauthorized"
    /\ inv[1].auth = "bearer s3cret"
    /\ \E b \in DOMAIN blocks : DueAt(b, now)

\* C37: for a candidate and an existing range that both start before they
\* end, the three-clause predicate of checkForConflicts selects the existing
\* range exactly when doTimeSlotsOverlap is true.
C37_ConflictTestsAgree ==
    (/\ call.op = "checkForConflicts"
     /\ call.a.startTime < call.a.endTime
     /\ call.b.startTime < call.b.endTime)
        => (call.selected <=> call.result)

\* a candidate that starts where the existing range ends: neither test
\* reports it
C37_TouchingNotSelected ==
    /\ call.op = "checkForConflicts"
    /\ call.b.startTime < call.b.endTime
    /\ call.a.startTime = call.b.endTime
    /\ call.a.startTime < call.a.endTime
    /\ call.selected = FALSE
    /\ call.result = FALSE

\* C38: each markAsFailed adds one to retryCount and, while the new count is
\* at most 3, sets nextRetryAt to now + 2^retryCount minutes; a document is
\* selected for retry, by findPendingRetries and by needsRetry alike, only
\* while it is failed, has retryCount < 3 and nextRetryAt <= now; after three
\* failures in a row it is never selected again.
C38_BackoffAndRetryCutoff ==
    /\ [][emailLog'.failedInARow = emailLog.failedInARow + 1
            => /\ emailLog'.retryCount = emailLog.retryCount + 1
               /\ emailLog'.retryCount <= 3
                    => emailLog'.nextRetryAt = now + Pow2(emailLog'.retryCount)]_vars
    /\ [][call' # call /\ call'.op = "findPendingRetries"
            => /\ call'.result <=> call'.selected
               /\ call'.result => /\ emailLog.status = "failed"
                                  /\ emailLog.retryCount < 3
                                  /\ emailLog.nextRetryAt <= now]_vars
    /\ [](emailLog.failedInARow >= 3
            => ~findPendingRetries(emailLog, now) /\ ~needsRetry(emailLog, now))

\* three failures in a row, the third back-off of 8 minutes has run out, and
\* the poll at that instant does not select the document
C38_ThreeFailuresNotPolled ==
    /\ emailLog.failedInARow = 3
    /\ emailLog.retryCount = 3
    /\ emailLog.status = "failed"
    /\ emailLog.nextRetryAt = 8
    /\ now >= 8
    /\ call.op = "findPendingRetries"
    /\ call.at = now
    /\ call.result = FALSE

====
